---- MODULE Spec2Model ----
(***************************************************************************)
(* A model of the reflector library: the compile-time discovery of an      *)
(* aggregate's fields (the loophole: count, decoy_t, latch), the manual    *)
(* provider (flatten, provide), the descriptor's compatibility check, and  *)
(* the run-time view reflection_t (offset, member, extract) over the bytes *)
(* of one instance.                                                        *)
(*                                                                         *)
(* A type is a record [base, ext]: base names a scalar or a struct, ext is *)
(* the list of array extents (<<>> for a non-array type).                  *)
(***************************************************************************)
EXTENDS Integers, Sequences, FiniteSets, TLC

\* ------------------------------------------------------------------ bounds
\* Largest value a test writes into a scalar (values are 0..MaxVal).
MaxVal == 1
\* Deepest chain of views built one over another (cilinder -> circle -> point).
MaxDepth == 3

\* ------------------------------------------------------------------- types
Ty(b) == [base |-> b, ext |-> <<>>]
Arr(b, e) == [base |-> b, ext |-> e]
NoType == [base |-> "none", ext |-> <<>>]

\* Scalar types of the platform (LP64): size and alignment in bytes (intref
\* is a member declared int&, which takes the room of a pointer).
ScalarSize == [char |-> 1, int |-> 4, double |-> 8, intref |-> 8]
Scalars == DOMAIN ScalarSize

\* the member types that are references
References == {"intref"}

\* The aggregates of the tests, and a few more shapes of the same kind
\* (padding, nested arrays, arrays of aggregates, no fields at all, a union,
\* an aggregate with a default member initializer, one with a reference member).
StructFields ==
    [ empty_t     |-> <<>>,
      point_t     |-> << Arr("double", <<2>>) >>,
      circle_t    |-> << Ty("point_t"), Ty("double") >>,
      cilinder_t  |-> << Ty("circle_t"), Ty("double") >>,
      ipoint_t    |-> << Ty("int"), Ty("int") >>,
      icircle_t   |-> << Ty("ipoint_t"), Ty("int") >>,
      icilinder_t |-> << Ty("icircle_t"), Ty("double") >>,
      line_t      |-> << Arr("ipoint_t", <<2>>) >>,
      tagged_t    |-> << Ty("char"), Ty("int") >>,
      packed_t    |-> << Ty("char"), Ty("char"), Ty("int") >>,
      label_t     |-> << Ty("int"), Arr("char", <<4>>) >>,
      grid_t      |-> << Arr("char", <<2, 2>>), Ty("int") >>,
      bits_t      |-> << Ty("int"), Arr("char", <<4>>) >>,
      init_t      |-> << Ty("int"), Ty("int") >>,
      ref_t       |-> << Ty("intref") >> ]
Structs == DOMAIN StructFields

\* union bits_t { int word; char bytes[4]; }
Unions == {"bits_t"}
\* struct init_t { int a = 0; int b; } and struct ref_t { int& r; }:
\* aggregates, not trivial types
NonTrivial == {"init_t", "ref_t"}

is_union_never(s) == FALSE
is_trivial_always(s) == TRUE

\* std::is_union, std::is_trivial
is_union(s) == s \in Unions
is_trivial(s) == s \notin NonTrivial

RECURSIVE Product(_)
Product(e) == IF e = <<>> THEN 1 ELSE Head(e) * Product(Tail(e))

Max(a, b) == IF a >= b THEN a ELSE b
AlignUp(o, a) == ((o + a - 1) \div a) * a

\* std::remove_all_extents
remove_all_extents(t) == [base |-> t.base, ext |-> <<>>]

\* ------------------------------------------------------------------ layout
\* A cell is [size, align].  Cells are packed as the compiler packs members
\* (and the bases of the tuple container, one leaf per element, in index
\* order): each at the lowest offset not below the end of the previous one
\* that satisfies its alignment; the whole is padded to a multiple of the
\* largest alignment, and an object without members has size 1.
RECURSIVE PackOffsets(_, _), PackEnd(_, _), PackAlign(_)
PackOffsets(cells, o) ==
    IF cells = <<>> THEN <<>>
    ELSE LET at == AlignUp(o, Head(cells).align)
         IN  <<at>> \o PackOffsets(Tail(cells), at + Head(cells).size)

PackEnd(cells, o) ==
    IF cells = <<>> THEN o
    ELSE PackEnd(Tail(cells), AlignUp(o, Head(cells).align) + Head(cells).size)

PackAlign(cells) ==
    IF cells = <<>> THEN 1 ELSE Max(Head(cells).align, PackAlign(Tail(cells)))

PackSize(cells) == Max(1, AlignUp(PackEnd(cells, 0), PackAlign(cells)))

\* the members of a union share offset 0: its size is that of the largest
RECURSIVE LargestCell(_)
LargestCell(cells) ==
    IF cells = <<>> THEN 0 ELSE Max(Head(cells).size, LargestCell(Tail(cells)))

UnionSize(cells) == Max(1, AlignUp(LargestCell(cells), PackAlign(cells)))

RECURSIVE SizeOf(_), AlignOf(_), CellsOf(_)
\* the cells of a list of types
CellsOf(ts) ==
    IF ts = <<>> THEN <<>>
    ELSE <<[size |-> SizeOf(Head(ts)), align |-> AlignOf(Head(ts))]>> \o CellsOf(Tail(ts))

AlignOf(t) ==
    IF t.base \in Scalars THEN ScalarSize[t.base]
    ELSE PackAlign(CellsOf(StructFields[t.base]))

SizeOf(t) ==
    Product(t.ext) *
        (IF t.base \in Scalars THEN ScalarSize[t.base]
         ELSE IF t.base \in Unions THEN UnionSize(CellsOf(StructFields[t.base]))
         ELSE PackSize(CellsOf(StructFields[t.base])))

\* The compiler's own layout of struct s: the offset of each declared member.
MemberOffsets(s) ==
    IF s \in Unions THEN [f \in 1..Len(StructFields[s]) |-> 0]
    ELSE PackOffsets(CellsOf(StructFields[s]), 0)

\* sizeof, alignof and element offsets of supertuple::tuple_t<R...>
tuple_sizeof(ts) == PackSize(CellsOf(ts))
tuple_alignof(ts) == PackAlign(CellsOf(ts))

RECURSIVE Repeat(_, _)
Repeat(seq, n) == IF n = 0 THEN <<>> ELSE seq \o Repeat(seq, n - 1)

RECURSIVE Concat(_)
Concat(seqs) == IF seqs = <<>> THEN <<>> ELSE Head(seqs) \o Concat(Tail(seqs))

\* ------------------------------------------- aggregate initialization T{...}
\* The initializer clauses one member consumes in T{decoy_t<T, I>()...}.  A
\* decoy converts to any scalar or class type, so a scalar or a nested
\* aggregate takes one clause; nothing converts to an array, so braces are
\* elided and the clauses go to the array's elements, one level at a time.
RECURSIVE BraceElide(_)
BraceElide(t) ==
    IF t.ext = <<>> THEN <<t>>
    ELSE Repeat(BraceElide([base |-> t.base, ext |-> Tail(t.ext)]), Head(t.ext))

\* The type each clause of T{...} is converted to, in clause order (the
\* clauses of a union initialize its first member only).
InitSlots(s) ==
    IF s \in Unions THEN BraceElide(StructFields[s][1])
    ELSE Concat([f \in 1..Len(StructFields[s]) |-> BraceElide(StructFields[s][f])])

\* the test made one decoy ahead of the pack
Accepts_ahead(s, k) == k + 1 <= Len(InitSlots(s))

\* sizeof(T{decoy_t<T, I>()...}) with k decoys is well-formed: missing
\* clauses value-initialize the rest (which a reference cannot be), one
\* clause too many is an error.
Accepts(s, k) ==
    /\ k <= Len(InitSlots(s))
    /\ \A j \in (k + 1)..Len(InitSlots(s)) : InitSlots(s)[j].base \notin References

\* The address of the i-th flattened field of an instance of s at address 0:
\* &v.f for a scalar or nested member, &v.f[j] (row-major) for an array.
RECURSIVE ElementOffsets(_, _)
ElementOffsets(t, at) ==
    IF t.ext = <<>> THEN <<at>>
    ELSE LET inner == [base |-> t.base, ext |-> Tail(t.ext)]
         IN  Concat([j \in 1..Head(t.ext) |->
                        ElementOffsets(inner, at + (j - 1) * SizeOf(inner))])

\* for a list of selected members sel (indices into the declaration)
FieldAddresses(s, sel) ==
    Concat([j \in 1..Len(sel) |->
               ElementOffsets(StructFields[s][sel[j]], MemberOffsets(s)[sel[j]])])

AllFields(s) == [f \in 1..Len(StructFields[s]) |-> f]

\* bytes of an object of type t that belong to a scalar (not padding)
RECURSIVE LeafBytes(_)
LeafBytes(t) ==
    IF t.ext # <<>> THEN
        LET inner == [base |-> t.base, ext |-> Tail(t.ext)]
        IN  UNION {{(j - 1) * SizeOf(inner) + b : b \in LeafBytes(inner)} :
                      j \in 1..Head(t.ext)}
    ELSE IF t.base \in Scalars THEN 0..(ScalarSize[t.base] - 1)
    ELSE UNION {{MemberOffsets(t.base)[f] + b :
                    b \in LeafBytes(StructFields[t.base][f])} :
                  f \in 1..Len(StructFields[t.base])}

\* The struct types a program reflecting s may reflect in turn (a view over a
\* nested reference instantiates the machinery for the nested type), s first.
RECURSIVE Reflected(_)
Reflected(s) ==
    <<s>> \o Concat([i \in 1..Len(InitSlots(s)) |->
                        IF InitSlots(s)[i].base \in Structs
                        THEN Reflected(InitSlots(s)[i].base) ELSE <<>>])

RECURSIVE Dedup(_, _)
Dedup(seq, seen) ==
    IF seq = <<>> THEN <<>>
    ELSE IF Head(seq) \in seen THEN Dedup(Tail(seq), seen)
    ELSE <<Head(seq)>> \o Dedup(Tail(seq), seen \cup {Head(seq)})

\* the members of s a pointer to member can name (no reference is one)
Selectable(s) == {f \in 1..Len(StructFields[s]) : StructFields[s][f].base \notin References}

\* Selector lists a provider may hand to provide(): members of s, any order.
SelectorLists(s) ==
    LET n == Len(StructFields[s])
    IN  UNION {[1..m -> Selectable(s)] : m \in 1..n}

\* ------------------------------------------------------------------- state
VARIABLES
    target,     \* the type the program reflects
    hasGuard,   \* the host compiler is not clang: inject(int) is declared
    avoidLoophole, \* REFLECTOR_AVOID_LOOPHOLE is defined: no automatic discovery
    mech,       \* the mechanism behind the program's views: "auto" | "manual"
    selectors,  \* the selector list of the target's manual provider
    pc,         \* "count" | "loophole" | "describe" | "missing" | "provide" | "run" | "rejected"
    todo,       \* types still to be instantiated after cur
    cur,        \* the type being instantiated
    pack,       \* sizeof...(I) of the count<T, I...> under evaluation
    latch,      \* the registry: (T, N) -> return type of latch(tag_t<T, N>)
    defs,       \* (T, N) -> number of definitions of latch(tag_t<T, N>) emitted
    injectors,  \* the specializations injector_t<T, P, N> instantiated so far
    asked,      \* (T, N) -> the types decoy_t<T, N> has been converted to so far
    constructed, \* T -> the numbers of decoys T has been constructed from so far
    reads,      \* the reads of latch(tag_t<T, I>) so far, in order
    trials,     \* T -> number of trial constructions count has evaluated
    fields,     \* T -> the value count<T>(0) returned
    extracted,  \* T -> the tuple loophole<T>() produced
    autoDesc,   \* T -> descriptor from the automatic mechanism
    manDesc,    \* T -> descriptor from provide(selectors...)
    mem,        \* the bytes of the reflected instance
    views,      \* the chain of views: views[d + 1] is built over an element of views[d]
    copy,       \* a view copy-constructed from one of the chain, NoView before
    shadow,     \* the instance as the program means it: each write lands on the member it names
    lastWrite   \* the latest write through a view

vars == <<target, hasGuard, avoidLoophole, mech, selectors, pc, todo, cur, pack, latch, defs,
          injectors, asked, constructed, reads, trials, fields, extracted, autoDesc, manDesc, mem, views, copy,
          shadow, lastWrite>>

build == <<target, hasGuard, avoidLoophole, mech, selectors>>
registry == <<latch, defs, injectors, asked>>
history == <<constructed, reads>>
compiled == <<todo, cur, pack, latch, defs, injectors, asked, constructed, reads, trials,
              fields, extracted, autoDesc, manDesc>>
runtime == <<mem, views, copy, shadow, lastWrite>>

\* the largest number of initializer clauses any of the aggregates takes
MaxSlots == CHOOSE m \in {Len(InitSlots(s)) : s \in Structs} :
                \A s \in Structs : Len(InitSlots(s)) <= m
Keys == {<<s, i - 1>> : s \in Structs, i \in 1..MaxSlots}
NoDesc == [status |-> "none", diags |-> {}, types |-> <<>>]

\* the diagnostics of the static_asserts
UnionDiag == "union types cannot be reflected"
TrivialDiag == "reflected type must be trivial"
CompatDiag == "reflection tuple is not compatible with target type"
MissingDiag == "no description was found for the required type, so it cannot be reflected"

\* where the instantiation of a reflected type starts: with the loophole's
\* count, without it at the generic describe (no provider) or at the provider
StartPc ==
    IF ~avoidLoophole THEN "count"
    ELSE IF mech = "auto" THEN "missing" ELSE "provide"
NoView == [type |-> "none", base |-> 0, truth |-> 0, refs |-> <<>>, elems |-> <<>>]
NoWrite == [truth |-> 0, type |-> NoType, val |-> 0]
SizeModulus == 2^30

Init ==
    /\ target \in Structs
    /\ avoidLoophole \in BOOLEAN
    /\ hasGuard \in IF avoidLoophole THEN {FALSE} ELSE BOOLEAN
    /\ mech \in IF Selectable(target) = {} THEN {"auto"} ELSE {"auto", "manual"}
    /\ selectors \in IF mech = "auto" THEN {AllFields(target)} ELSE SelectorLists(target)
    /\ pc = StartPc
    /\ todo = Tail(Dedup(Reflected(target), {}))
    /\ cur = target
    /\ pack = 0
    /\ latch = [k \in Keys |-> NoType]
    /\ defs = [k \in Keys |-> 0]
    /\ injectors = {}
    /\ asked = [k \in Keys |-> {}]
    /\ constructed = [s \in Structs |-> {}]
    /\ reads = <<>>
    /\ trials = [s \in Structs |-> 0]
    /\ fields = [s \in Structs |-> 0]
    /\ extracted = [s \in Structs |-> <<>>]
    /\ autoDesc = [s \in Structs |-> NoDesc]
    /\ manDesc = [s \in Structs |-> NoDesc]
    /\ mem = [b \in 0..(SizeOf(Ty(target)) - 1) |-> 0]
    /\ views = <<>>
    /\ copy = NoView
    /\ shadow = mem
    /\ lastWrite = NoWrite

\* ------------------------------------------------------------ the loophole
\* a conversion of a decoy that instantiates no injector
inject_never(reg, s, P, N) == [reg EXCEPT !.asked[<<s, N>>] = @ \cup {P}]

\* inject without the test for an earlier registration: every conversion of
\* a decoy defines the latch anew
inject_always(reg, s, P, N) ==
    [latch     |-> [reg.latch EXCEPT ![<<s, N>>] = remove_all_extents(P)],
     asked     |-> [reg.asked EXCEPT ![<<s, N>>] = @ \cup {P}],
     defs      |-> [reg.defs EXCEPT ![<<s, N>>] = @ + 1],
     injectors |-> reg.injectors \cup {<<s, P, N>>}]

\* decoy_t<T, N>::operator P&: its default template argument evaluates
\* sizeof(inject<P, N>(0)).  With the guard and latch(tag_t<T, N>) already
\* defined, inject(int) is chosen and nothing is instantiated; otherwise
\* inject(...) names injector_t<T, P, N>, whose instantiation defines
\* latch(tag_t<T, N>) returning remove_all_extents<P>.  Without the guard the
\* specialization injector_t<T, P, N> is instantiated once for a given P; a
\* different P would define the friend a second time.
inject(reg, s, P, N) ==
    LET k == <<s, N>>
        converted == [reg EXCEPT !.asked[k] = @ \cup {P}]
    IN
    IF hasGuard /\ reg.latch[k] # NoType THEN converted
    ELSE IF <<s, P, N>> \in reg.injectors THEN converted
    ELSE [latch     |-> [reg.latch EXCEPT ![k] = remove_all_extents(P)],
          asked     |-> converted.asked,
          defs      |-> [reg.defs EXCEPT ![k] = @ + 1],
          injectors |-> reg.injectors \cup {<<s, P, N>>}]

\* a construction whose decoys meet the clauses in reverse: of k decoys,
\* decoy N converts to the type of clause k - N
RECURSIVE construct_from(_, _, _, _)
construct_from(reg, s, k, j) ==
    IF j = 0 THEN reg
    ELSE inject(construct_from(reg, s, k, j - 1), s, InitSlots(s)[k - j + 1], j - 1)

construct_reversed(reg, s, k) == construct_from(reg, s, k, k)

\* T{decoy_t<T, I>()...} with k decoys: decoy N converts to the type of the
\* N-th clause, left to right.
RECURSIVE construct(_, _, _)
construct(reg, s, k) ==
    IF k = 0 THEN reg
    ELSE inject(construct(reg, s, k - 1), s, InitSlots(s)[k], k - 1)

Registry == [latch |-> latch, defs |-> defs, injectors |-> injectors, asked |-> asked]

SetRegistry(reg) ==
    /\ latch' = reg.latch
    /\ defs' = reg.defs
    /\ injectors' = reg.injectors
    /\ asked' = reg.asked

\* count(int) recursing with two more indices, skipping an arity
count_int_skip ==
    /\ pc = "count"
    /\ Accepts(cur, pack)
    /\ SetRegistry(construct([latch |-> latch, defs |-> defs, injectors |-> injectors,
                              asked |-> asked],
                             cur, pack))
    /\ constructed' = [constructed EXCEPT ![cur] = @ \cup {pack}]
    /\ trials' = [trials EXCEPT ![cur] = @ + 1]
    /\ pack' = pack + 2
    /\ UNCHANGED <<build, pc, todo, cur, reads, fields, extracted, autoDesc, manDesc, runtime>>

\* the recursion base returning sizeof...(I), the rejected arity included
count_result_no_dec(n) == n % SizeModulus

\* count(...): the recursion base, sizeof...(I) - 1 in size_t arithmetic
\* (the modulus stands for 2^64, beyond the integers TLC computes with)
count_result(n) == (n + SizeModulus - 1) % SizeModulus

\* count<T, I...>(int): viable when sizeof(T{decoy_t<T, I>()...}) is
\* well-formed; it recurses with one more index.
count_int ==
    /\ pc = "count"
    /\ Accepts(cur, pack)
    /\ SetRegistry(construct(Registry, cur, pack))
    /\ constructed' = [constructed EXCEPT ![cur] = @ \cup {pack}]
    /\ trials' = [trials EXCEPT ![cur] = @ + 1]
    /\ pack' = pack + 1
    /\ UNCHANGED <<build, pc, todo, cur, reads, fields, extracted, autoDesc, manDesc, runtime>>

\* count<T, I...>(...): chosen when the trial with sizeof...(I) decoys fails.
count_base ==
    /\ pc = "count"
    /\ ~Accepts(cur, pack)
    /\ trials' = [trials EXCEPT ![cur] = @ + 1]
    /\ fields' = [fields EXCEPT ![cur] = count_result(pack)]
    /\ pc' = "loophole"
    /\ UNCHANGED <<build, todo, cur, pack, registry, history, extracted, autoDesc, manDesc, runtime>>

\* loophole1<T>(make_index_sequence<count<T>(0)>): one more construction,
\* with n decoys (the default template argument), then latch(tag_t<T, I>) is
\* read for I = 0..n-1 in order (the return type); without the construction
\* the overload is not viable and nothing is read.
loophole1 ==
    /\ pc = "loophole"
    /\ LET n   == fields[cur]
           reg == IF Accepts(cur, n) THEN construct(Registry, cur, n) ELSE Registry
           ok  == Accepts(cur, n) /\ \A i \in 1..n : reg.latch[<<cur, i - 1>>] # NoType
           now == IF Accepts(cur, n) THEN constructed[cur] \cup {n} ELSE constructed[cur]
       IN  /\ SetRegistry(reg)
           /\ constructed' = [constructed EXCEPT ![cur] = now]
           /\ reads' = IF Accepts(cur, n)
                       THEN reads \o [i \in 1..n |-> [key   |-> <<cur, i - 1>>,
                                                      seen  |-> reg.latch[<<cur, i - 1>>],
                                                      after |-> now]]
                       ELSE reads
           /\ extracted' = [extracted EXCEPT ![cur] =
                               IF ok THEN [i \in 1..n |-> reg.latch[<<cur, i - 1>>]] ELSE <<>>]
           /\ pc' = IF ok THEN "describe" ELSE "rejected"
    /\ UNCHANGED <<build, todo, cur, pack, trials, fields, autoDesc, manDesc, runtime>>

\* ---------------------------------------------------------- the descriptor
\* the check without its alignment half
is_compatible_size(ts, s) == tuple_sizeof(ts) = SizeOf(Ty(s))

\* the check comparing alignments only
is_compatible_align(ts, s) == tuple_alignof(ts) = AlignOf(Ty(s))

\* is_compatible / the descriptor's static_assert
is_compatible(ts, s) ==
    /\ tuple_sizeof(ts) = SizeOf(Ty(s))
    /\ tuple_alignof(ts) = AlignOf(Ty(s))

\* a descriptor with the diagnostics its instantiation raised
Diagnosed(diags, ts) ==
    [status |-> IF diags = {} THEN "ok" ELSE "error", diags |-> diags, types |-> ts]

\* descriptor_t<T, tuple_t<R...>>: its two static_asserts
descriptor_t(s, ts) ==
    Diagnosed((IF is_union(s) THEN {UnionDiag} ELSE {})
                  \cup (IF is_compatible(ts, s) THEN {} ELSE {CompatDiag}),
              ts)

\* provider_t<T>::provide() of the automatic mechanism: the static_assert on
\* triviality, then the descriptor of the loophole's tuple
describe ==
    /\ pc = "describe"
    /\ autoDesc' = [autoDesc EXCEPT ![cur] =
                       Diagnosed((IF is_trivial(cur) THEN {} ELSE {TrivialDiag})
                                     \cup descriptor_t(cur, extracted[cur]).diags,
                                 extracted[cur])]
    /\ pc' = IF autoDesc'[cur].status = "ok" THEN "provide" ELSE "rejected"
    /\ UNCHANGED <<build, todo, cur, pack, registry, history, trials, fields, extracted, manDesc,
                   runtime>>

describe_missing_silent ==
    /\ pc = "missing"
    /\ autoDesc' = [autoDesc EXCEPT ![cur] = Diagnosed({}, <<>>)]
    /\ pc' = "provide"
    /\ UNCHANGED <<build, todo, cur, pack, registry, history, trials, fields, extracted, manDesc,
                   runtime>>

\* describe(T*) when the loophole is avoided and nothing describes T: its
\* static_assert can never hold
describe_missing ==
    /\ pc = "missing"
    /\ autoDesc' = [autoDesc EXCEPT ![cur] = Diagnosed({MissingDiag}, <<>>)]
    /\ pc' = IF autoDesc'[cur].status = "ok" THEN "provide" ELSE "rejected"
    /\ UNCHANGED <<build, todo, cur, pack, registry, history, trials, fields, extracted, manDesc,
                   runtime>>

\* flatten leaving an array member as one entry of array type
flatten_none(t) == <<t>>

\* flatten taking the first extent for the number of elements
flatten_extent(t) ==
    [i \in 1..(IF t.ext = <<>> THEN 1 ELSE Head(t.ext)) |-> remove_all_extents(t)]

\* flatten expanding a nested aggregate into its own members as well
flatten_deep(t) ==
    IF t.ext = <<>> /\ t.base \in Structs THEN InitSlots(t.base)
    ELSE [i \in 1..(SizeOf(t) \div SizeOf(remove_all_extents(t))) |-> remove_all_extents(t)]

\* detail::flatten: ntuple_t<E, N> with E = remove_all_extents<T> and
\* N = sizeof(T) / sizeof(E)
flatten(t) ==
    LET E == remove_all_extents(t)
        N == SizeOf(t) \div SizeOf(E)
    IN  [i \in 1..N |-> E]

\* a fold whose concatenate puts the new tuple in front
RECURSIVE foldl_concat_reversed(_)
foldl_concat_reversed(tuples) ==
    IF Len(tuples) = 1 THEN tuples[1]
    ELSE foldl_concat_reversed(<<tuples[2] \o tuples[1]>> \o SubSeq(tuples, 3, Len(tuples)))

\* foldl(tuple_t<...>, concatenate)
RECURSIVE foldl_concat(_)
foldl_concat(tuples) ==
    IF Len(tuples) = 1 THEN tuples[1]
    ELSE foldl_concat(<<tuples[1] \o tuples[2]>> \o SubSeq(tuples, 3, Len(tuples)))

\* the selector list of the manual provider of s
Selectors(s) == IF s = target THEN selectors ELSE AllFields(s)

\* provide(R T::*...): the descriptor of the flattened selected members
provide(s, sel) ==
    descriptor_t(s, foldl_concat([j \in 1..Len(sel) |-> flatten(StructFields[s][sel[j]])]))

\* provide(R T::*...) of reflector/descriptor.hpp: the descriptor of the
\* selected members' types as declared
descriptor_provide(s, sel) ==
    descriptor_t(s, [j \in 1..Len(sel) |-> StructFields[s][sel[j]]])

\* The manual provider of cur is instantiated (a type without members has
\* none: provide() cannot deduce T), then the next type is taken up.
provider ==
    /\ pc = "provide"
    /\ manDesc' = [manDesc EXCEPT ![cur] =
                      IF Selectors(cur) = <<>> THEN NoDesc
                      ELSE provide(cur, Selectors(cur))]
    /\ IF manDesc'[cur].status \notin {"ok", "none"}
       THEN pc' = "rejected" /\ UNCHANGED <<todo, cur, pack>>
       ELSE IF todo = <<>>
       THEN pc' = "run" /\ UNCHANGED <<todo, cur, pack>>
       ELSE pc' = StartPc /\ cur' = Head(todo) /\ todo' = Tail(todo) /\ pack' = 0
    /\ UNCHANGED <<build, registry, history, trials, fields, extracted, autoDesc, runtime>>

\* ---------------------------------------------------------------- the view
\* the descriptor the provider of s supplies to reflection_t<s>
descriptor_of(s) == IF mech = "auto" THEN autoDesc[s] ELSE manDesc[s]

\* a storage cell that drops the alignment of the member
storage_t_unaligned(S, A) == [size |-> S, align |-> 1]

\* a storage cell with its two template arguments taken in the wrong order
storage_t_swapped(S, A) == [size |-> A, align |-> S]

storage_t(S, A) == [size |-> S, align |-> A]

\* storage cells of the sizes of the types, aligned to single bytes
to_storage_tuple_packed(ts) == [i \in 1..Len(ts) |-> storage_t(SizeOf(ts[i]), 1)]

to_storage_tuple(ts) == [i \in 1..Len(ts) |-> storage_t(SizeOf(ts[i]), AlignOf(ts[i]))]

\* the offset as the sum of the sizes of the elements before, padding ignored
RECURSIVE offset_unpadded(_, _)
offset_unpadded(ts, N) ==
    IF N = 0 THEN 0 ELSE offset_unpadded(ts, N - 1) + SizeOf(ts[N])

\* reflection_t<T>::offset<N>(): &s.get<N>() - &s.get<0>() in a storage tuple
offset(ts, N) ==
    LET at == PackOffsets(to_storage_tuple(ts), 0)
    IN  at[N + 1] - at[1]

\* member binding the reference at the base of the instance
member_base(ts, N, at) == at

\* reflection_t<T>::member<N>(target): the address the reference is bound to
member(ts, N, at) == at + offset(ts, N)

extract_short(ts, at) == [i \in 1..(Len(ts) - 1) |-> member(ts, i - 1, at)]

\* reflection_t<T>::extract: one reference per element of the descriptor
extract(ts, at) == [i \in 1..Len(ts) |-> member(ts, i - 1, at)]

\* the members of s the entries of its descriptor describe
Described(s) == IF mech = "auto" THEN AllFields(s) ELSE Selectors(s)

\* T&: the reference type of an element type
Ref(t) == [base |-> t.base, ext |-> t.ext, ref |-> TRUE]

to_ref_tuple_values(ts) == [i \in 1..Len(ts) |-> [base |-> ts[i].base, ext |-> ts[i].ext, ref |-> FALSE]]

\* to_ref_tuple: tuple_t<T...> to tuple_t<T&...>
to_ref_tuple(ts) == [i \in 1..Len(ts) |-> Ref(ts[i])]

\* reflection_t(T&): truth is where the reflected object really is; elems is
\* the element type list of the underlying reference_tuple_t
reflection_t(s, at, truth) ==
    [type |-> s, base |-> at, truth |-> truth,
     refs |-> extract(descriptor_of(s).types, at),
     elems |-> to_ref_tuple(descriptor_of(s).types)]

\* std::tuple_size<reflection_t<T>>: reflection_t<T>::count
tuple_size(v) == Len(v.elems)

\* std::tuple_element<I, reflection_t<T>>::type
tuple_element(v, I) == v.elems[I + 1]

\* auto [...] = view: binding j is get<j - 1>(view), of type tuple_element<j - 1>
Destructure(v) ==
    [j \in 1..tuple_size(v) |-> [type |-> tuple_element(v, j - 1), at |-> v.refs[j]]]

ElementType(v, i) == descriptor_of(v.type).types[i]

\* reflection_t(instance)
Reflect ==
    /\ pc = "run"
    /\ views = <<>>
    /\ descriptor_of(target).status = "ok"
    /\ views' = <<reflection_t(target, 0, 0)>>
    /\ UNCHANGED <<build, pc, compiled, mem, copy, shadow, lastWrite>>

\* auto [..., c, ...] = view; reflection_t(c): a view over a nested reference
ReflectNested(i) ==
    /\ pc = "run"
    /\ views # <<>>
    /\ Len(views) < MaxDepth
    /\ LET v == views[Len(views)] IN
       /\ i \in 1..Len(v.refs)
       /\ ElementType(v, i).base \in Structs
       /\ descriptor_of(ElementType(v, i).base).status = "ok"
       /\ views' = Append(views,
              reflection_t(ElementType(v, i).base, v.refs[i],
                           v.truth + FieldAddresses(v.type, Described(v.type))[i]))
    /\ UNCHANGED <<build, pc, compiled, mem, copy, shadow, lastWrite>>

copy_construct_rebound(v) == [v EXCEPT !.refs = extract(descriptor_of(v.type).types, 0)]

\* reflection_t(const reflection_t&) = default, reflection_t(reflection_t&&)
\* = default: each reference of the new tuple is bound to what the
\* corresponding reference of the other is bound to
copy_construct(v) ==
    [type |-> v.type, base |-> v.base, truth |-> v.truth,
     refs |-> [i \in 1..Len(v.refs) |-> v.refs[i]],
     elems |-> v.elems]

\* auto other = view (or std::move(view)), for a view of the chain
CopyView(d) ==
    /\ pc = "run"
    /\ d \in 1..Len(views)
    /\ copy = NoView
    /\ copy' = copy_construct(views[d])
    /\ UNCHANGED <<build, pc, compiled, mem, views, shadow, lastWrite>>

\* assignment of an object of type t holding val in every scalar, at address at
store(m, at, t, val) ==
    LET written == {at + b : b \in LeafBytes(t)}
    IN  [b \in DOMAIN m |-> IF b \in written THEN val ELSE m[b]]

\* x = val through the reference at index i of view d (also set<i>(view, val))
Write(d, i, val) ==
    /\ pc = "run"
    /\ d \in 1..Len(views)
    /\ i \in 1..Len(views[d].refs)
    /\ LET truth == views[d].truth
                        + FieldAddresses(views[d].type, Described(views[d].type))[i]
           R     == ElementType(views[d], i)
       IN  /\ mem' = store(mem, views[d].refs[i], R, val)
           /\ shadow' = store(shadow, truth, R, val)
           /\ lastWrite' = [truth |-> truth, type |-> R, val |-> val]
    /\ UNCHANGED <<build, pc, compiled, views, copy>>

Next ==
    \/ count_int
    \/ count_base
    \/ loophole1
    \/ describe
    \/ describe_missing
    \/ provider
    \/ Reflect
    \/ \E i \in 1..MaxSlots : ReflectNested(i)
    \/ \E d \in 1..MaxDepth : CopyView(d)
    \/ \E d \in 1..MaxDepth, i \in 1..MaxSlots, val \in 0..MaxVal : Write(d, i, val)

Spec == Init /\ [][Next]_vars

\* Builds whose manual providers list every member in declaration order, as
\* the providers of the repository do.
InitDeclared == Init /\ selectors = AllFields(target)
SpecDeclared == InitDeclared /\ [][Next]_vars

\* ------------------------------------------------------------------ claims
\* the type s has been counted: count<s>(0) has returned
Counted(s) == trials[s] > 0 /\ (s = cur => pc # "count")

\* the true address of the member that entry i of the view v describes
TrueAddress(v, i) == v.truth + FieldAddresses(v.type, Described(v.type))[i]

\* C1: round-trip identity - the reference at every position of every view
\* has the address of the corresponding flattened member of the instance,
\* i.e. base + offset<i>() is the true address of that member.
C1_RoundTrip ==
    \A d \in 1..Len(views) :
        /\ views[d].base = views[d].truth
        /\ \A i \in 1..Len(views[d].refs) :
              /\ views[d].refs[i] = TrueAddress(views[d], i)
              /\ views[d].base + offset(descriptor_of(views[d].type).types, i - 1)
                    = TrueAddress(views[d], i)

\* a third-level view whose second reference lies past a padded member
C1_Witness ==
    /\ target = "icilinder_t"
    /\ Len(views) = 3
    /\ views[3].refs = <<0, 4>>
    /\ views[1].refs = <<0, 16>>

\* C2: write-through - after any sequence of writes through the references
\* of views of any level, every member of the instance reads the value last
\* written to it through a view.
C2_WriteThrough ==
    /\ mem = shadow
    /\ lastWrite.type # NoType =>
          \A b \in LeafBytes(lastWrite.type) : mem[lastWrite.truth + b] = lastWrite.val

\* members written through views of the first, second and third level
C2_Witness ==
    /\ target = "cilinder_t"
    /\ Len(views) = 3
    /\ lastWrite = [truth |-> 8, type |-> Ty("double"), val |-> 1]
    /\ mem[8] = 1 /\ mem[0] = 0 /\ mem[16] = 1 /\ mem[24] = 1

\* C3: mechanism parity - a type described by the loophole and by provide()
\* over all its members in declaration order gets the same field count, the
\* same field types and the same offsets from both.
C3_Parity ==
    \A s \in Structs :
        (/\ autoDesc[s].status = "ok"
         /\ manDesc[s].status = "ok"
         /\ Selectors(s) = AllFields(s))
        => /\ Len(autoDesc[s].types) = Len(manDesc[s].types)
           /\ autoDesc[s].types = manDesc[s].types
           /\ \A i \in 1..Len(autoDesc[s].types) :
                 offset(autoDesc[s].types, i - 1) = offset(manDesc[s].types, i - 1)

\* both descriptors of an aggregate with a two-dimensional array exist
C3_Witness ==
    /\ autoDesc["grid_t"].status = "ok"
    /\ manDesc["grid_t"].status = "ok"
    /\ selectors = AllFields("grid_t")
    /\ Len(manDesc["grid_t"].types) = 5

\* what a member contributes to the field-type sequence: k entries of type E
\* for an array of k elements of type E, itself otherwise
Contribution(t) ==
    IF t.ext = <<>> THEN <<t>> ELSE [j \in 1..Product(t.ext) |-> Ty(t.base)]

\* the entries the members sel of s contribute, in order
Contributions(s, sel) ==
    Concat([h \in 1..Len(sel) |-> Contribution(StructFields[s][sel[h]])])

\* C4: array flattening - an array member of k elements of type E stands in
\* the field-type sequence as k consecutive entries of type E, under the
\* automatic and under the manual mechanism alike.
C4_ArrayFlattening ==
    \A s \in Structs :
        /\ (autoDesc[s].status # "none" /\ MissingDiag \notin autoDesc[s].diags
                /\ s \notin Unions) =>
              autoDesc[s].types = Contributions(s, AllFields(s))
        /\ manDesc[s].status # "none" =>
              manDesc[s].types = Contributions(s, Selectors(s))

\* struct { double a[2]; }: two fields, double and double, aliasing a[0], a[1]
C4_Witness ==
    /\ target = "point_t"
    /\ fields["point_t"] = 2
    /\ autoDesc["point_t"].types = <<Ty("double"), Ty("double")>>
    /\ manDesc["point_t"].types = <<Ty("double"), Ty("double")>>
    /\ Len(views) = 1
    /\ views[1].refs = <<0, 8>>
    /\ mem[8] = 1

\* C5: nested aggregates - a member of aggregate type takes one index of the
\* outer view, typed as the nested type; a view over that reference reaches
\* the inner members where they are in the outer instance; assigning a whole
\* nested value through the outer reference replaces the nested member.
C5_Nested ==
    /\ \A s \in Structs :
          descriptor_of(s).status = "ok" =>
              \A j \in 1..Len(Described(s)) :
                  LET sel == Described(s)
                      t   == StructFields[s][sel[j]]
                      idx == 1 + Len(Contributions(s, SubSeq(sel, 1, j - 1)))
                  IN  (t.base \in Structs /\ t.ext = <<>>) =>
                          /\ descriptor_of(s).types[idx] = t
                          /\ Len(descriptor_of(s).types)
                                = idx + Len(Contributions(s, SubSeq(sel, j + 1, Len(sel))))
    /\ \A d \in 2..Len(views) :
          \A j \in 1..Len(views[d].refs) :
              views[d].refs[j] = views[d].truth
                                    + FieldAddresses(views[d].type, AllFields(views[d].type))[j]
    /\ (lastWrite.type.base \in Structs) =>
          \A b \in LeafBytes(lastWrite.type) : mem[lastWrite.truth + b] = lastWrite.val

\* cpoint = point_t{...} through a second-level view of a cilinder
C5_Witness ==
    /\ target = "cilinder_t"
    /\ mech = "manual"
    /\ Len(views) = 2
    /\ views[2].type = "circle_t"
    /\ lastWrite = [truth |-> 0, type |-> Ty("point_t"), val |-> 1]
    /\ mem[0] = 1 /\ mem[8] = 1 /\ mem[16] = 0

TrialCap == Len(InitSlots("point_t")) + 2
C8_WriteOnce ==
    [][\A k \in Keys :
          latch[k] # NoType => (latch'[k] = latch[k] /\ defs'[k] = defs[k])]_vars

\* key (grid_t, 0) went through every trial and the extraction pass
C8_Witness ==
    /\ pc = "describe"
    /\ cur = "grid_t"
    /\ trials["grid_t"] = 7
    /\ defs[<<"grid_t", 0>>] = 1
    /\ latch[<<"grid_t", 4>>] = Ty("int")

\* C9: a descriptor is accepted exactly when its tuple has the size and the
\* alignment of the target; a mismatch of either is the compile-time error
\* 'reflection tuple is not compatible with target type', after which no
\* view exists.
C9_DescriptorInvariant ==
    /\ \A s \in Structs : \A d \in {autoDesc[s], manDesc[s]} :
          (d.status # "none" /\ MissingDiag \notin d.diags) =>
              LET same == /\ PackSize(CellsOf(d.types)) = SizeOf(Ty(s))
                          /\ PackAlign(CellsOf(d.types)) = AlignOf(Ty(s))
              IN  /\ CompatDiag \notin d.diags <=> same
                  /\ d.status = "ok" => same
                  /\ (~is_union(s) /\ (is_trivial(s) \/ d = manDesc[s])) =>
                         (d.status = "ok" <=> same)
                  /\ d.status # "ok" => pc = "rejected"
    /\ pc = "rejected" => views = <<>>
    /\ \A d \in 1..Len(views) : descriptor_of(views[d].type).status = "ok"

\* eight chars have the size of label_t but not its alignment: rejected
C9_Witness ==
    /\ target = "label_t"
    /\ selectors = <<2, 2>>
    /\ manDesc["label_t"].status = "error"
    /\ manDesc["label_t"].diags = {CompatDiag}
    /\ Len(manDesc["label_t"].types) = 8
    /\ pc = "rejected"

C11_UnionRejected ==
    \A s \in Unions :
        /\ \A d \in {autoDesc[s], manDesc[s]} :
               (d.status # "none" /\ MissingDiag \notin d.diags) =>
                   /\ UnionDiag \in d.diags
                   /\ d.status = "error"
                   /\ pc = "rejected"
        /\ descriptor_of(s).status # "ok"
        /\ \A d \in 1..Len(views) : views[d].type # s

\* the manual descriptor of bits_t from its int member alone has the size
\* and alignment of bits_t, and is rejected for being a union's
C11_Witness ==
    /\ target = "bits_t"
    /\ mech = "manual"
    /\ selectors = <<1>>
    /\ manDesc["bits_t"].diags = {UnionDiag}
    /\ pc = "rejected"

C15_ViewShape ==
    \A d \in 1..Len(views) :
        LET v == views[d]
            ts == descriptor_of(v.type).types
            n == Len(ts)
        IN  /\ Len(v.refs) = n
            /\ tuple_size(v) = n
            /\ mech = "auto" => n = fields[v.type]
            /\ Len(Destructure(v)) = n
            /\ \A I \in 0..(n - 1) :
                   /\ tuple_element(v, I) = Ref(ts[I + 1])
                   /\ Destructure(v)[I + 1].type = Ref(InitSlots(v.type)[I + 1])
                   /\ Destructure(v)[I + 1].at = TrueAddress(v, I + 1)

\* auto [center, radius] = reflection_t(circle): point_t& and double&
C15_Witness ==
    /\ Len(views) = 2
    /\ views[2].type = "circle_t"
    /\ tuple_size(views[2]) = 2
    /\ tuple_element(views[2], 0) = Ref(Ty("point_t"))
    /\ tuple_element(views[2], 1) = Ref(Ty("double"))

\* the number of entries a selector of member type t expands to
ExpansionCount(t) == IF t.ext = <<>> THEN 1 ELSE Product(t.ext)

\* the number of entries the first j selectors of sel expand to
RECURSIVE ExpandedBefore(_, _, _)
ExpandedBefore(s, sel, j) ==
    IF j = 0 THEN 0
    ELSE ExpandedBefore(s, sel, j - 1) + ExpansionCount(StructFields[s][sel[j]])

\* C16: manual normalization - the type sequence of provide(s1..sm) is the
\* concatenation, in selector order, of the selectors' expansions: an array
\* selector stands for sizeof(array) / sizeof(element) entries (the product of
\* its extents) of its element type, any other selector for one entry of its
\* own type.
C16_ManualNormalization ==
    \A s \in Structs :
        manDesc[s].status # "none" =>
            LET sel == Selectors(s)
                ts == manDesc[s].types
            IN  /\ Len(ts) = ExpandedBefore(s, sel, Len(sel))
                /\ \A j \in 1..Len(sel) :
                       LET t == StructFields[s][sel[j]]
                           first == ExpandedBefore(s, sel, j - 1)
                       IN  /\ ExpansionCount(t) = SizeOf(t) \div SizeOf(Ty(t.base))
                           /\ \A e \in 1..ExpansionCount(t) : ts[first + e] = Ty(t.base)
                           /\ (t.ext = <<>>) => (ts[first + 1] = t /\ ExpansionCount(t) = 1)

\* provide(&grid_t::n, &grid_t::cells): one int, then the four chars of
\* char cells[2][2]
C16_Witness ==
    /\ target = "grid_t"
    /\ selectors = <<2, 1>>
    /\ manDesc["grid_t"].types = <<Ty("int"), Ty("char"), Ty("char"), Ty("char"), Ty("char")>>

\* C17: view copy - copy- or move-constructing a view yields a view of the
\* same type whose every reference is bound to the address the original's is
\* bound to, which under declaration-order descriptors is the same field of
\* the same instance; the construction changes no byte of the instance and
\* leaves the original views as they are.
C17_ViewCopy ==
    [][copy' # copy =>
          /\ \E d \in 1..Len(views) :
                 /\ copy'.type = views[d].type
                 /\ Len(copy'.refs) = Len(views[d].refs)
                 /\ \A i \in 1..Len(views[d].refs) :
                        /\ copy'.refs[i] = views[d].refs[i]
                        /\ copy'.refs[i] = TrueAddress(views[d], i)
                        /\ copy'.elems[i] = views[d].elems[i]
          /\ mem' = mem
          /\ views' = views]_vars

\* a copy of the view of the second point of a line_t, after a write
C17_Witness ==
    /\ target = "line_t"
    /\ copy # NoView
    /\ copy.type = "ipoint_t"
    /\ copy.base > 0
    /\ lastWrite # NoWrite

\* C18: registration precedes query - every read of latch(tag_t<T, i>) made
\* to assemble the tuple of T finds the key registered, comes after T has been
\* constructed from n = count<T>(0) placeholders, and has i < n; the reads of
\* a type come in index order 0, 1, ..., n-1 and the assembled tuple holds at
\* position i what the read of key (T, i) saw.
C18_RegistrationPrecedesQuery ==
    /\ \A j \in 1..Len(reads) :
           LET r == reads[j]
               s == r.key[1]
               i == r.key[2]
           IN  /\ r.seen # NoType
               /\ defs[r.key] >= 1
               /\ fields[s] \in r.after
               /\ i < fields[s]
               /\ i = Cardinality({h \in 1..(j - 1) : reads[h].key[1] = s})
               /\ Len(extracted[s]) = fields[s]
               /\ extracted[s][i + 1] = r.seen
    /\ \A s \in Structs :
           extracted[s] # <<>> =>
               Cardinality({j \in 1..Len(reads) : reads[j].key[1] = s}) = fields[s]

\* the two reads of circle_t, after those of cilinder_t
C18_Witness ==
    /\ target = "cilinder_t"
    /\ Len(reads) = 4
    /\ reads[3].key = <<"circle_t", 0>>
    /\ reads[3].seen = Ty("point_t")
    /\ reads[4].key = <<"circle_t", 1>>
    /\ reads[4].after = {0, 1, 2}

\* where element i of ts lies when cells of size sizeof(Rj) and alignment
\* alignof(Rj) are set down in index order, each at the lowest address at or
\* after the end of the one before that is a multiple of its alignment
RECURSIVE LowestFit(_, _)
LowestFit(ts, i) ==
    IF i = 1 THEN 0
    ELSE LET free == LowestFit(ts, i - 1) + SizeOf(ts[i - 1])
         IN  CHOOSE a \in free..(free + AlignOf(ts[i]) - 1) : a % AlignOf(ts[i]) = 0

\* C19: offset probe - offset<i>() is determined by the descriptor's type
\* sequence alone: offset<0>() is 0, offset<i>() is where element i lies in
\* the sequential aligned layout of cells of the sizes and alignments of
\* R1..Rn, so offsets grow strictly with the index and each is a multiple of
\* alignof(Ri); a view at any address has its references at base + offset<i>().
C19_OffsetProbe ==
    /\ \A s \in Structs : \A d \in {autoDesc[s], manDesc[s]} :
           \A i \in 1..Len(d.types) :
               /\ offset(d.types, 0) = 0
               /\ offset(d.types, i - 1) = LowestFit(d.types, i)
               /\ offset(d.types, i - 1) % AlignOf(d.types[i]) = 0
               /\ i > 1 => offset(d.types, i - 1) > offset(d.types, i - 2)
    /\ \A d \in 1..Len(views) : \A i \in 1..Len(views[d].refs) :
           views[d].refs[i] - views[d].base = offset(descriptor_of(views[d].type).types, i - 1)
    /\ \A d, e \in 1..Len(views) :
           views[d].type = views[e].type =>
               \A i \in 1..Len(views[d].refs) :
                   views[d].refs[i] - views[d].base = views[e].refs[i] - views[e].base

\* icilinder_t {icircle_t (12 bytes, aligned to 4); double}: the double is
\* probed at 16, past four bytes of padding
C19_Witness ==
    /\ target = "icilinder_t"
    /\ autoDesc["icilinder_t"].status = "ok"
    /\ offset(autoDesc["icilinder_t"].types, 1) = 16
    /\ SizeOf(autoDesc["icilinder_t"].types[1]) = 12
    /\ views # <<>>

\* C20: slot-type stability across trials - over all the constructions of T
\* evaluated so far, with any number of placeholders, placeholder i has been
\* converted to one type only; that type is the one registered for (T, i),
\* it has been defined once, and it is the one at position i of the tuple
\* assembled after the final construction - with the guard overload and
\* without it.
C20_SlotTypeStable ==
    \A s \in Structs : \A i \in 0..(MaxSlots - 1) :
        LET k == <<s, i>> IN
        /\ Cardinality(asked[k]) <= 1
        /\ (\E n \in constructed[s] : n > i) <=> asked[k] # {}
        /\ asked[k] # {} =>
               /\ asked[k] = {latch[k]}
               /\ defs[k] = 1
               /\ latch[k] = InitSlots(s)[i + 1]
        /\ i < Len(extracted[s]) => asked[k] = {extracted[s][i + 1]}

\* circle_t on a compiler without the guard: placeholder 0 was converted in
\* the trials with 1, 2 and again 2 placeholders, always to point_t
C20_Witness ==
    /\ ~hasGuard
    /\ ~avoidLoophole
    /\ constructed["circle_t"] = {0, 1, 2}
    /\ asked[<<"circle_t", 0>>] = {Ty("point_t")}
    /\ asked[<<"circle_t", 1>>] = {Ty("double")}
    /\ extracted["circle_t"] = <<Ty("point_t"), Ty("double")>>

\* the bytes element i of a descriptor's type sequence ts is probed at
ProbedBytes(ts, i) == offset(ts, i - 1)..(offset(ts, i - 1) + SizeOf(ts[i]) - 1)

\* C21: in-bounds aliasing - for every accepted descriptor of T, automatic or
\* from any selector list, offset<i>() + sizeof(Ri) <= sizeof(T) and the byte
\* ranges of two distinct indices are disjoint; so every reference of every
\* view, at any nesting level, lies inside the object the view was built over
\* and inside the instance.
C21_InBounds ==
    /\ \A s \in Structs : \A d \in {autoDesc[s], manDesc[s]} :
           d.status = "ok" =>
               \A i \in 1..Len(d.types) :
                   /\ offset(d.types, i - 1) + SizeOf(d.types[i]) <= SizeOf(Ty(s))
                   /\ \A j \in 1..Len(d.types) :
                          i # j => ProbedBytes(d.types, i) \cap ProbedBytes(d.types, j) = {}
    /\ \A d \in 1..Len(views) :
           LET v == views[d] IN
           /\ v.base >= 0
           /\ \A b \in v.base..(v.base + SizeOf(Ty(v.type)) - 1) : b \in DOMAIN mem
           /\ \A i \in 1..Len(v.refs) :
                  /\ v.refs[i] >= v.base
                  /\ v.refs[i] + SizeOf(ElementType(v, i)) <= v.base + SizeOf(Ty(v.type))
                  /\ \A j \in 1..Len(v.refs) :
                         i # j => ( v.refs[i] + SizeOf(ElementType(v, i)) <= v.refs[j]
                                    \/ v.refs[j] + SizeOf(ElementType(v, j)) <= v.refs[i] )

\* provide(&circle_t::radius, &circle_t::center) is accepted: its view and the
\* view over its second element stay inside the 24 bytes of the circle_t
C21_Witness ==
    /\ target = "circle_t"
    /\ selectors = <<2, 1>>
    /\ manDesc["circle_t"].status = "ok"
    /\ Len(views) = 2
    /\ views[2].type = "point_t"
    /\ views[2].base = 8
    /\ DOMAIN mem = 0..23

\* the bytes of the field the reference at index i of view v stands for
FieldBytes(v, i) == TrueAddress(v, i)..(TrueAddress(v, i) + SizeOf(ElementType(v, i)) - 1)

\* C22: frame of a write - a step that changes the instance is a write
\* through the reference at some index i of some view, of any nesting level;
\* only bytes of field i of the viewed object change: every other field of
\* that object, and every byte outside it (the objects beside it included),
\* is as before, and so are the views.
C22_WriteFrame ==
    [][mem' # mem =>
          /\ views' = views
          /\ copy' = copy
          /\ \E d \in 1..Len(views) : \E i \in 1..Len(views[d].refs) :
                 /\ lastWrite'.truth = TrueAddress(views[d], i)
                 /\ lastWrite'.type = ElementType(views[d], i)
                 /\ \A b \in DOMAIN mem : mem'[b] # mem[b] => b \in FieldBytes(views[d], i)
                 /\ \A j \in 1..Len(views[d].refs) :
                        j # i => \A b \in FieldBytes(views[d], j) : mem'[b] = mem[b]]_vars

\* y = 1 through the view of the point of the circle of a cilinder_t: x, the
\* radius and the height keep their bytes
C22_Witness ==
    /\ target = "cilinder_t"
    /\ Len(views) = 3
    /\ lastWrite = [truth |-> 8, type |-> Ty("double"), val |-> 1]
    /\ mem[0] = 0
    /\ mem[8] = 1
    /\ mem[16] = 0
    /\ mem[24] = 0

\* C23: storage mirrors types - for the type sequence R1..Rn of every
\* descriptor, the storage sequence has one cell per type, of its size and
\* alignment (the size a multiple of the alignment, so the cell has no
\* padding of its own); laid out as a tuple it has the size, the alignment
\* and the per-index offsets of the reflection tuple of R1..Rn, hence those
\* of T whenever the descriptor is accepted.
C23_StorageMirrorsTypes ==
    \A s \in Structs : \A d \in {autoDesc[s], manDesc[s]} :
        d.status # "none" =>
            LET cells == to_storage_tuple(d.types) IN
            /\ Len(cells) = Len(d.types)
            /\ \A i \in 1..Len(d.types) :
                   /\ cells[i].size = SizeOf(d.types[i])
                   /\ cells[i].align = AlignOf(d.types[i])
                   /\ cells[i].size % cells[i].align = 0
                   /\ PackOffsets(cells, 0)[i] = PackOffsets(CellsOf(d.types), 0)[i]
            /\ PackSize(cells) = tuple_sizeof(d.types)
            /\ PackAlign(cells) = tuple_alignof(d.types)
            /\ d.status = "ok" =>
                   /\ PackSize(cells) = SizeOf(Ty(s))
                   /\ PackAlign(cells) = AlignOf(Ty(s))

\* icilinder_t: cells of 12 bytes aligned to 4 and of 8 bytes aligned to 8
\* make up its 24 bytes, the second cell at 16
C23_Witness ==
    /\ autoDesc["icilinder_t"].status = "ok"
    /\ to_storage_tuple(autoDesc["icilinder_t"].types)
           = <<[size |-> 12, align |-> 4], [size |-> 8, align |-> 8]>>
    /\ PackSize(to_storage_tuple(autoDesc["icilinder_t"].types)) = 24

\* C24: no wrap-around in counting - for every trivial, non-union type, the
\* construction from no decoy is well-formed, so the base case of count is
\* reached with at least one index in the pack: count<T>(0) is the number of
\* trial constructions less two, a number of members, never SIZE_MAX.
C24_NoWrapAround ==
    \A s \in Structs :
        (s \notin NonTrivial /\ s \notin Unions) =>
            /\ (cur = s /\ pc = "count" /\ pack = 0) => (ENABLED count_int /\ ~ENABLED count_base)
            /\ Counted(s) =>
                   /\ trials[s] >= 2
                   /\ fields[s] = trials[s] - 2
                   /\ fields[s] <= MaxSlots
                   /\ fields[s] # SizeModulus - 1

\* an aggregate without members: the base case is reached with one index
C24_Witness ==
    /\ target = "empty_t"
    /\ pc = "loophole"
    /\ pack = 1
    /\ trials["empty_t"] = 2
    /\ fields["empty_t"] = 0

\* C25: the manual entry points agree - for every type and selector list
\* handed to provide(), the descriptor of reflector/descriptor.hpp's provide
\* has the field count and the field-type sequence of the descriptor of
\* reflector/provider.hpp's provide.
C25_EntryPointsAgree ==
    \A s \in Structs :
        manDesc[s].status # "none" =>
            LET old == descriptor_provide(s, Selectors(s)) IN
            /\ Len(old.types) = Len(manDesc[s].types)
            /\ old.types = manDesc[s].types
====
